---- MODULE Spec2Model ----
(***************************************************************************)
(* A model of the GoogleReader client of src/src/lib.rs: the session       *)
(* object with its two lazily acquired tokens, the construction of each    *)
(* request (URL, query, Authorization header, form) and the parsing of     *)
(* each response.                                                          *)
(*                                                                         *)
(* Text is a sequence of characters (one-character strings).  A literal    *)
(* of the program that no operation looks into ("accounts", the fixed      *)
(* query, "GoogleLogin auth=", the scheme and host of the server URL) is   *)
(* one element of such a sequence.  Option<T> is a sequence of length at   *)
(* most one: None is << >>, Some(x) is <<x>>.                              *)
(***************************************************************************)
EXTENDS Integers, Sequences, FiniteSets, TLC

\* ------------------------------------------------------------- bounds
\* Longest path (in characters) of a server URL given to try_new.
MaxPath == 4
\* Longest body (in characters) the token endpoint answers with.
MaxTokenBody == 2
\* Longest continuation cursor (in characters) given to get_unread_items.
MaxCursor == 2
\* Longest body (in characters) the unread-count endpoint answers with.
MaxCountBody == 1
\* Most pieces (Auth=a, the literal Auth=, a letter, a blank) of a login body.
MaxPieces == 2
\* Callers that share the session.
NumTasks == 2

\* ------------------------------------------------------------- text
None == << >>
Some(x) == <<x>>
IsSome(o) == Len(o) = 1
IsNone(o) == Len(o) = 0
Unwrap(o) == o[1]

SeqsUpTo(S, n) == UNION {[1..k -> S] : k \in 0..n}

RECURSIVE Flatten(_)
Flatten(ss) == IF ss = << >> THEN << >> ELSE Head(ss) \o Flatten(Tail(ss))

\* str::ends_with(c)
ends_with(s, c) == Len(s) > 0 /\ s[Len(s)] = c

\* str::strip_suffix(c): Some(the text without one trailing c), or None.
strip_suffix(s, c) == IF ends_with(s, c) THEN Some(SubSeq(s, 1, Len(s) - 1)) ELSE None

\* char::is_whitespace, on the characters the model draws from.
Whitespace == {" ", "\n", "\t", "\r"}

\* ------------------------------------------------------------- url::Url
\* The scheme and authority of the server, e.g. "http://x": one element.
Origin == "http://x"

Ok(v) == [ok |-> TRUE, value |-> v]
Err(e) == [ok |-> FALSE, error |-> e]

\* Url::parse on Origin followed by a path over "/" and letters: an input that
\* does not start with the scheme is a relative URL and is refused; the path
\* of an http URL is never empty (the bare origin gets the path "/").
Url_parse(s) ==
    IF Len(s) = 0 \/ s[1] # Origin
    THEN Err("RelativeUrlWithoutBase")
    ELSE Ok([origin |-> Origin,
             path |-> IF Len(s) = 1 THEN <<"/">> ELSE Tail(s),
             query |-> None])

\* Url::as_str
as_str(url) ==
    <<url.origin>> \o url.path \o
    (IF IsSome(url.query) THEN <<"?">> \o Unwrap(url.query) ELSE << >>)

\* PathSegmentsMut::push: a "/" goes in front of the new segment unless the
\* path is the root "/" alone; an empty last segment is not removed.
push(url, segment) ==
    [url EXCEPT !.path = (IF Len(@) > 1 THEN @ \o <<"/">> ELSE @) \o <<segment>>]

RECURSIVE push_all(_, _)
push_all(url, segments) ==
    IF segments = << >> THEN url
    ELSE push_all(push(url, Head(segments)), Tail(segments))

\* The query percent-encode set of Url::set_query for an http URL, on visible
\* ASCII: space, ", #, <, > and ' are written %XX, every other character
\* (so & and = and %) as it is.
query_encode_char(c) ==
    CASE c = " "  -> <<"%", "2", "0">>
      [] c = "\"" -> <<"%", "2", "2">>
      [] c = "#"  -> <<"%", "2", "3">>
      [] c = "'"  -> <<"%", "2", "7">>
      [] c = "<"  -> <<"%", "3", "C">>
      [] c = ">"  -> <<"%", "3", "E">>
      [] OTHER    -> <<c>>

RECURSIVE query_encode(_)
query_encode(s) ==
    IF s = << >> THEN << >>
    ELSE query_encode_char(Head(s)) \o query_encode(Tail(s))

\* Url::set_query(Some(text)) and Url::query
set_query(url, text) == [url EXCEPT !.query = Some(query_encode(text))]
query(url) == url.query

\* ------------------------------------------------------------- try_new
\* Faulty variant of strip_trailing_slash: the text is stored as given.
strip_trailing_slash_none(server_url) == server_url

\* lib.rs 75-82: one trailing '/' is taken off the given text.
strip_trailing_slash(server_url) ==
    IF ends_with(server_url, "/")
    THEN Unwrap(strip_suffix(server_url, "/"))
    ELSE server_url

\* lib.rs 84-92: the new object, or the URL parse error.
\* Faulty variant of new_reader: the object starts with a write token.
new_reader_with_write_token(username_, password_, parsed) ==
    IF ~parsed.ok THEN Err("Failed to parse server URL")
    ELSE Ok([username |-> username_,
             password |-> password_,
             server_url |-> parsed.value,
             authtoken |-> None,
             write_token |-> Some(<<"w">>),
             client |-> None])

new_reader(username_, password_, parsed) ==
    IF ~parsed.ok THEN Err("Failed to parse server URL")
    ELSE Ok([username |-> username_,
             password |-> password_,
             server_url |-> parsed.value,
             authtoken |-> None,
             write_token |-> None,
             client |-> None])

\* lib.rs 70-93
try_new(username_, password_, server_url_) ==
    new_reader(username_, password_, Url_parse(strip_trailing_slash(server_url_)))

\* ------------------------------------------------------------- requests
\* What one call hands to the HTTP client: the request as built.
Request(endpoint_, method_, url_, headers_, form_) ==
    [endpoint |-> endpoint_, method |-> method_, url |-> as_str(url_),
     query |-> url_.query, headers |-> headers_, form |-> form_]

\* What the server side gives back for one request: the send fails
\* ("transport_err"), the body cannot be read ("body_err"), or a response
\* with a status and a body arrives ("ok").  The program never reads status.
TransportErr == [kind |-> "transport_err", status |-> 0, body |-> << >>]
BodyErr(st) == [kind |-> "body_err", status |-> st, body |-> << >>]
Response(st, b) == [kind |-> "ok", status |-> st, body |-> b]
\* The place of a response the call is known not to ask for.
NoResponse == [kind |-> "none", status |-> 0, body |-> << >>]

\* anyhow::Result of one call, with the contexts added on the way out; a
\* panic (a failed unwrap) is a third outcome.
ResOk(v) == [kind |-> "ok", value |-> v, context |-> << >>]
ResErr(ctx) == [kind |-> "err", value |-> << >>, context |-> <<ctx>>]
ResPanic(msg) == [kind |-> "panic", value |-> << >>, context |-> <<msg>>]
\* .with_context(|| ctx)? on a result that is not Ok
with_context(res, ctx) ==
    IF res.kind = "err" THEN [res EXCEPT !.context = <<ctx>> \o @] ELSE res

\* The state a call leaves and what it did: the object, the requests sent in
\* order, the responses they got, and the value returned.
Out(self_, reqs_, resps_, result_) ==
    [self |-> self_, reqs |-> reqs_, resps |-> resps_, result |-> result_]

\* ------------------------------------------------------------- login
LitAuth == <<"A", "u", "t", "h", "=">>

\* The regex Auth=(?P<authtoken>\S+) matches at i.
auth_match_at(body, i) ==
    /\ i + 5 <= Len(body)
    /\ SubSeq(body, i, i + 4) = LitAuth
    /\ body[i + 5] \notin Whitespace

\* Faulty variant of captures: the group runs to the end of the line, blanks
\* included.
captures_to_line_end(body) ==
    LET starts == {i \in 1..Len(body) : auth_match_at(body, i)}
    IN  IF starts = {} THEN None
        ELSE LET i == CHOOSE k \in starts : \A m \in starts : k <= m
                 ends == {j \in (i + 5)..Len(body) :
                            \A k \in (i + 5)..j : body[k] # "\n"}
                 j == CHOOSE k \in ends : \A m \in ends : m <= k
             IN  Some(SubSeq(body, i + 5, j))

\* Regex::captures(&body) and the group authtoken: the leftmost match, the
\* group taking the longest run of non-white-space characters.
captures(body) ==
    LET starts == {i \in 1..Len(body) : auth_match_at(body, i)}
    IN  IF starts = {} THEN None
        ELSE LET i == CHOOSE k \in starts : \A m \in starts : k <= m
                 ends == {j \in (i + 5)..Len(body) :
                            \A k \in (i + 5)..j : body[k] \notin Whitespace}
                 j == CHOOSE k \in ends : \A m \in ends : m <= k
             IN  Some(SubSeq(body, i + 5, j))

\* Faulty variant of ensure_client: no client is made.
ensure_client_never(self) == self

\* lib.rs 106-108: the HTTP client is made on the first login.
ensure_client(self) ==
    IF IsNone(self.client) THEN [self EXCEPT !.client = Some("Client")] ELSE self

\* lib.rs 128-134: what login caches for a body: nothing changes when the
\* regex does not match.
cache_authtoken(self, body) ==
    IF IsSome(captures(body))
    THEN [self EXCEPT !.authtoken = Some(Unwrap(captures(body)))]
    ELSE self

\* lib.rs 97-105: the login request.
login_request(self) ==
    Request("login", "POST", push_all(self.server_url, <<"accounts", "ClientLogin">>),
            << >>, << <<"Email", self.username>>, <<"Passwd", self.password>> >>)

\* Faulty variant of login_answer: the cached token is dropped when the login
\* fails.
login_answer_reset(s1, r) ==
    IF r.kind = "ok" /\ IsSome(captures(r.body))
    THEN Out(cache_authtoken(s1, r.body), <<login_request(s1)>>, <<r>>, ResOk(<< >>))
    ELSE Out([s1 EXCEPT !.authtoken = None], <<login_request(s1)>>, <<r>>,
             ResErr("Failed to login"))

\* lib.rs 109-136: what login makes of the answer r to its request.
login_answer(s1, r) ==
    IF r.kind \notin {"ok", "body_err"}
    THEN Out(s1, <<login_request(s1)>>, <<r>>, ResErr("Failed to send login request"))
    ELSE IF r.kind = "body_err"
    THEN Out(s1, <<login_request(s1)>>, <<r>>, ResErr("Failed to get login response body"))
    ELSE IF IsNone(captures(r.body))
    THEN Out(s1, <<login_request(s1)>>, <<r>>, ResErr("Failed to parse login response"))
    ELSE Out(cache_authtoken(s1, r.body), <<login_request(s1)>>, <<r>>, ResOk(<< >>))

\* lib.rs 96-137
login(self, srv) == login_answer(ensure_client(self), srv.login)

\* ------------------------------------------------------------- headers
\* lib.rs 239-250: the one header of an authenticated request, or the panic
\* of the unwrap when no token is cached.  (The tokens of the model are
\* visible characters, which HeaderValue accepts.)
get_auth_headers(self) ==
    IF IsNone(self.authtoken) THEN ResPanic("unwrap: authtoken is None")
    ELSE ResOk(<< <<"Authorization", <<"GoogleLogin auth=">> \o Unwrap(self.authtoken)>> >>)

\* Faulty variant of authenticated: the request goes out without .headers(..).
unauthenticated(self, endpoint_, method_, url_, form_) ==
    IF IsNone(self.client) THEN ResPanic("unwrap: client is None")
    ELSE ResOk(Request(endpoint_, method_, url_, << >>, form_))

\* self.client.as_ref().unwrap().<method>(url)[.form(..)].headers(self.get_auth_headers()):
\* the request, or the panic of the first unwrap that fails.
authenticated(self, endpoint_, method_, url_, form_) ==
    IF IsNone(self.client) THEN ResPanic("unwrap: client is None")
    ELSE IF get_auth_headers(self).kind = "panic" THEN get_auth_headers(self)
    ELSE ResOk(Request(endpoint_, method_, url_, get_auth_headers(self).value, form_))

\* Faulty variant of needs_login: every call logs in.
needs_login_always(self) == TRUE

\* if self.authtoken.is_none() (lib.rs 141, 181, 254, 301)
needs_login(self) == IsNone(self.authtoken)

\* if self.authtoken.is_none() { self.login().await.with_context(..)? }: the
\* call so far, and whether it goes on.
ensure_login(self, srv) ==
    IF needs_login(self)
    THEN [login(self, srv) EXCEPT !.result = with_context(@, "Failed to login")]
    ELSE Out(self, << >>, << >>, ResOk(<< >>))

\* ------------------------------------------------------------- get_write_token
\* Faulty variant of strip_newline: every trailing newline is taken off.
strip_newline_all(body) ==
    SubSeq(body, 1, Cardinality({i \in 1..Len(body) : \E j \in i..Len(body) : body[j] # "\n"}))

\* lib.rs 167-169
strip_newline(body) ==
    IF ends_with(body, "\n") THEN Unwrap(strip_suffix(body, "\n")) ELSE body

\* Faulty variant of round_trip: a request whose send fails is sent again.
round_trip_retry(prev, rq, r, ctxSend, ctxBody) ==
    IF prev.result.kind # "ok" THEN prev
    ELSE IF rq.kind = "panic" THEN Out(prev.self, prev.reqs, prev.resps, rq)
    ELSE IF r.kind \notin {"ok", "body_err"}
    THEN Out(prev.self, prev.reqs \o <<rq.value, rq.value>>, prev.resps \o <<r, r>>,
             ResErr(ctxSend))
    ELSE IF r.kind = "body_err"
    THEN Out(prev.self, prev.reqs \o <<rq.value>>, prev.resps \o <<r>>, ResErr(ctxBody))
    ELSE Out(prev.self, prev.reqs \o <<rq.value>>, prev.resps \o <<r>>, ResOk(r.body))

\* One authenticated round trip after the steps `prev` of the call: nothing
\* more when they failed; the panic of the request's unwraps; the error
\* of a send or a body read that fails (contexts ctxSend, ctxBody); else the
\* request and its answer r, the result holding r.body for the caller.
round_trip(prev, rq, r, ctxSend, ctxBody) ==
    IF prev.result.kind # "ok" THEN prev
    ELSE IF rq.kind = "panic" THEN Out(prev.self, prev.reqs, prev.resps, rq)
    ELSE IF r.kind \notin {"ok", "body_err"}
    THEN Out(prev.self, prev.reqs \o <<rq.value>>, prev.resps \o <<r>>, ResErr(ctxSend))
    ELSE IF r.kind = "body_err"
    THEN Out(prev.self, prev.reqs \o <<rq.value>>, prev.resps \o <<r>>, ResErr(ctxBody))
    ELSE Out(prev.self, prev.reqs \o <<rq.value>>, prev.resps \o <<r>>, ResOk(r.body))

\* lib.rs 144-160: the token request.
token_request(self) ==
    authenticated(self, "token", "GET",
                  push_all(self.server_url, <<"reader", "api", "0", "token">>), << >>)

\* lib.rs 167-173: the body without one trailing newline is cached and returned.
cache_write_token(t) ==
    IF t.result.kind # "ok" THEN t
    ELSE Out([t.self EXCEPT !.write_token = Some(strip_newline(t.result.value))],
             t.reqs, t.resps, ResOk(strip_newline(t.result.value)))

\* Faulty variant of get_write_token_after: a token request that fails drops
\* the cached write token.
invalidate_on_failure(l, t) ==
    IF Len(t.reqs) > Len(l.reqs) /\ t.result.kind # "ok"
    THEN Out([t.self EXCEPT !.write_token = None], t.reqs, t.resps, t.result)
    ELSE t
get_write_token_after_invalidate(l, srv) ==
    invalidate_on_failure(l,
        cache_write_token(
            round_trip(l, token_request(l.self), srv.token,
                       "Failed to get write token",
                       "Failed to get write token response body")))

\* lib.rs 140-174, after the login of lines 141-143.
get_write_token_after(l, srv) ==
    cache_write_token(
        round_trip(l, token_request(l.self), srv.token,
                   "Failed to get write token", "Failed to get write token response body"))

get_write_token(self, srv) == get_write_token_after(ensure_login(self, srv), srv)

\* ------------------------------------------------------------- get_unread_items
\* "r=n&xt=user/-/state/com.google/read" (lib.rs 206): one element.
FixedQuery == <<"r=n&xt=user/-/state/com.google/read">>

StreamSegments ==
    <<"reader", "api", "0", "stream", "contents", "user", "-", "state",
      "com.google", "reading-list">>

\* Faulty variant of with_continuation: the cursor goes after the fixed
\* parameters.
with_continuation_appended(u1, continuation) ==
    IF IsSome(continuation)
    THEN set_query(u1, (IF IsSome(query(u1)) THEN Unwrap(query(u1)) ELSE << >>) \o
                       <<"&", "c", "=">> \o Unwrap(continuation))
    ELSE u1

\* lib.rs 207-211: format!("c={}&{}", continuation, url.query().unwrap_or(""))
with_continuation(u1, continuation) ==
    IF IsSome(continuation)
    THEN set_query(u1, <<"c", "=">> \o Unwrap(continuation) \o <<"&">> \o
                       (IF IsSome(query(u1)) THEN Unwrap(query(u1)) ELSE << >>))
    ELSE u1

\* lib.rs 206-211: the query of the stream request.
stream_query(url, continuation) == with_continuation(set_query(url, FixedQuery), continuation)

\* lib.rs 187-219: the stream request.
stream_request(self, continuation) ==
    authenticated(self, "stream", "GET",
                  stream_query(push_all(self.server_url, StreamSegments), continuation),
                  << >>)

\* serde_json::from_str::<Response>(&body): the body of the stream endpoint
\* is either no JSON of a Response, or the JSON of one page.
NotJson == [valid |-> FALSE, page |-> << >>]
JsonPage(items_, continuation_) ==
    [valid |-> TRUE, page |-> <<[items |-> items_, continuation |-> continuation_]>>]
from_str(body) == IF body.valid THEN Ok(body.page[1]) ELSE Err("serde_json")

\* Faulty variant of parse_page: a body that is no page drops the cached
\* auth token.
parse_page_logout(t) ==
    IF t.result.kind # "ok" THEN t
    ELSE IF ~from_str(t.result.value).ok
    THEN Out([t.self EXCEPT !.authtoken = None], t.reqs, t.resps,
             ResErr("Failed to parse unread items response body"))
    ELSE Out(t.self, t.reqs, t.resps, ResOk(from_str(t.result.value).value))

\* lib.rs 229-233
parse_page(t) ==
    IF t.result.kind # "ok" THEN t
    ELSE IF ~from_str(t.result.value).ok
    THEN Out(t.self, t.reqs, t.resps, ResErr("Failed to parse unread items response body"))
    ELSE Out(t.self, t.reqs, t.resps, ResOk(from_str(t.result.value).value))

\* Faulty variant of get_unread_items_after: a page that carries a cursor is
\* followed by a second request with that cursor.
follow_cursor(t, srv) ==
    IF t.result.kind = "ok" /\ IsSome(t.result.value.continuation)
    THEN parse_page(
            round_trip(Out(t.self, t.reqs, t.resps, ResOk(<< >>)),
                       stream_request(t.self, t.result.value.continuation), srv.own,
                       "Failed to send unread-items request",
                       "Failed to parse unread items response body"))
    ELSE t
get_unread_items_after_follow(l, continuation, srv) ==
    follow_cursor(
        parse_page(
            round_trip(l, stream_request(l.self, continuation), srv.own,
                       "Failed to send unread-items request",
                       "Failed to parse unread items response body")), srv)

\* lib.rs 177-234, after the login of lines 181-183.
get_unread_items_after(l, continuation, srv) ==
    parse_page(
        round_trip(l, stream_request(l.self, continuation), srv.own,
                   "Failed to send unread-items request",
                   "Failed to parse unread items response body"))

get_unread_items(self, continuation, srv) ==
    get_unread_items_after(ensure_login(self, srv), continuation, srv)

\* lib.rs 236: get_item does nothing.
get_item(self, item_id) == Out(self, << >>, << >>, ResOk(<< >>))

\* ------------------------------------------------------------- mark_item_read
\* Faulty variant of ensure_write_token: a fresh token for every call.
ensure_write_token_refetch(l, srv) ==
    IF l.result.kind # "ok" THEN l
    ELSE [get_write_token_after(
              Out(l.self, l.reqs, l.resps, ensure_login(l.self, srv).result), srv)
          EXCEPT !.result = with_context(@, "Failed to get write token")]

\* lib.rs 258-264: the cached write token, or a fresh one; nothing when the
\* login before it failed.
ensure_write_token(l, srv) ==
    IF l.result.kind # "ok" THEN l
    ELSE IF IsSome(l.self.write_token)
    THEN Out(l.self, l.reqs, l.resps, ResOk(Unwrap(l.self.write_token)))
    ELSE [get_write_token_after(
              Out(l.self, l.reqs, l.resps, ensure_login(l.self, srv).result), srv)
          EXCEPT !.result = with_context(@, "Failed to get write token")]

\* lib.rs 266-270
edit_tag_params(write_token_, item_id) ==
    << <<"a", "user/-/state/com.google/read">>,
       <<"T", write_token_>>,
       <<"i", item_id>> >>

\* Faulty variant of edit_tag_request: the auth token goes into field T.
edit_tag_request_auth(self, write_token_, item_id) ==
    authenticated(self, "edit-tag", "POST",
                  push_all(self.server_url, <<"reader", "api", "0", "edit-tag">>),
                  edit_tag_params(Unwrap(self.authtoken), item_id))

\* lib.rs 272-286: the edit-tag request.
edit_tag_request(self, write_token_, item_id) ==
    authenticated(self, "edit-tag", "POST",
                  push_all(self.server_url, <<"reader", "api", "0", "edit-tag">>),
                  edit_tag_params(write_token_, item_id))

\* lib.rs 266-297, with the write token of lines 258-264 in w.result.
\* Faulty variant of mark_item_read_after: the edit-tag request is sent twice.
mark_item_read_after_twice(w, item_id, srv) ==
    round_trip(
        round_trip(w, edit_tag_request(w.self, w.result.value, item_id), srv.own,
                   "Failed to get write token", "Failed to get write token response body"),
        edit_tag_request(w.self, w.result.value, item_id), srv.own,
        "Failed to get write token", "Failed to get write token response body")

mark_item_read_after(w, item_id, srv) ==
    round_trip(w, edit_tag_request(w.self, w.result.value, item_id), srv.own,
               "Failed to get write token", "Failed to get write token response body")

\* lib.rs 253-297
mark_item_read(self, item_id, srv) ==
    mark_item_read_after(ensure_write_token(ensure_login(self, srv), srv), item_id, srv)

\* ------------------------------------------------------------- unread_count
DigitValue ==
    [c \in {"0", "1", "2", "3", "4", "5", "6", "7", "8", "9"} |->
        CASE c = "0" -> 0 [] c = "1" -> 1 [] c = "2" -> 2 [] c = "3" -> 3
          [] c = "4" -> 4 [] c = "5" -> 5 [] c = "6" -> 6 [] c = "7" -> 7
          [] c = "8" -> 8 [] c = "9" -> 9]

RECURSIVE digits_value(_, _)
digits_value(acc, ds) ==
    IF ds = << >> THEN acc ELSE digits_value(acc * 10 + DigitValue[Head(ds)], Tail(ds))

\* The digits of a body: what follows an optional leading '+'.
unsigned_digits(body) == IF Len(body) > 0 /\ body[1] = "+" THEN Tail(body) ELSE body

\* Faulty variant of parse_usize: zero for a text that is no number.
parse_usize_or_zero(body) ==
    IF Len(unsigned_digits(body)) = 0
       \/ \E i \in 1..Len(unsigned_digits(body)) :
             unsigned_digits(body)[i] \notin DOMAIN DigitValue
    THEN Ok(0)
    ELSE Ok(digits_value(0, unsigned_digits(body)))

\* str::parse::<usize>: decimal digits after an optional '+', nothing else
\* (no white space, no sign alone, not empty).  The bodies of the model are
\* too short to overflow a usize.
parse_usize(body) ==
    IF Len(unsigned_digits(body)) = 0
       \/ \E i \in 1..Len(unsigned_digits(body)) :
             unsigned_digits(body)[i] \notin DOMAIN DigitValue
    THEN Err("ParseIntError")
    ELSE Ok(digits_value(0, unsigned_digits(body)))

\* lib.rs 305-320: the unread-count request.
unread_count_request(self) ==
    authenticated(self, "unread-count", "GET",
                  push_all(self.server_url, <<"reader", "api", "0", "unread-count">>),
                  << >>)

\* lib.rs 329-332
parse_count(t) ==
    IF t.result.kind # "ok" THEN t
    ELSE IF ~parse_usize(t.result.value).ok
    THEN Out(t.self, t.reqs, t.resps, ResErr("Failed to parse unread count response"))
    ELSE Out(t.self, t.reqs, t.resps, ResOk(parse_usize(t.result.value).value))

\* lib.rs 300-333, after the login of lines 301-303.
unread_count_after(l, srv) ==
    parse_count(
        round_trip(l, unread_count_request(l.self), srv.own,
                   "Failed to send unread-items request",
                   "Failed to get unread count response body"))

unread_count(self, srv) == unread_count_after(ensure_login(self, srv), srv)

\* ------------------------------------------------------------- inputs
\* What the caller may pass and what the server side may answer.  Two sets
\* of inputs are explored: ProtocolInputs is wide in what the server answers
\* (the token protocol), BuilderInputs is wide in what the caller passes
\* (the construction of URLs, queries and headers).
Usernames == {"user"}
Passwords == {"secret"}
ItemIds == {<<"a">>, <<"b">>}

\* Server URLs: the origin and a path ("" or starting with "/"), and the
\* same paths without the origin (relative, refused by Url::parse).
UrlPaths(n) == {p \in SeqsUpTo({"/", "a"}, n) : Len(p) = 0 \/ p[1] = "/"}
ServerUrls(n) == {<<Origin>> \o p : p \in UrlPaths(n)} \cup UrlPaths(n)

\* Login bodies: two that carry a token ("SID=x\nAuth=a\n" and "Auth=b"), and
\* two that carry none (the empty body, and Auth= with a blank after it).
LoginBodies ==
    {<<"S", "I", "D", "=", "x", "\n">> \o LitAuth \o <<"a", "\n">>,
     LitAuth \o <<"b">>,
     << >>,
     LitAuth \o <<" ">>}

\* The body of a server that refuses the request.
Unauthorized == <<"Unauthorized">>
BadAuthentication == <<"Error=BadAuthentication", "\n">>

Failures == {TransportErr, BodyErr(200)}

ProtocolInputs ==
    [urls |-> {<<Origin, "/", "a", "/">>, <<"a">>},
     logins |-> Failures \cup {Response(403, BadAuthentication)}
                \cup {Response(200, b) : b \in LoginBodies},
     tokens |-> Failures \cup {Response(401, Unauthorized)}
                \cup {Response(200, b) : b \in SeqsUpTo({"a", "\n"}, MaxTokenBody)},
     edits |-> Failures \cup {Response(401, Unauthorized), Response(200, <<"O", "K">>)},
     streams |-> Failures \cup {Response(401, NotJson), Response(200, NotJson),
                                Response(200, JsonPage(<<"a", "b">>, None)),
                                Response(200, JsonPage(<<"a">>, Some(<<"k">>)))},
     counts |-> Failures \cup {Response(401, Unauthorized)}
                \cup {Response(200, b) : b \in SeqsUpTo({"7", "E"}, MaxCountBody)},
     cursors |-> {None, Some(<<"k">>)}]

BuilderInputs ==
    [urls |-> ServerUrls(MaxPath),
     logins |-> {TransportErr, Response(200, LitAuth \o <<"a">>)},
     tokens |-> {TransportErr, Response(200, <<"a", "\n">>)},
     edits |-> {Response(200, <<"O", "K">>)},
     streams |-> {Response(200, JsonPage(<<"a">>, Some(<<"k">>)))},
     counts |-> {Response(200, <<"7">>)},
     cursors |-> {None} \cup {Some(k) : k \in SeqsUpTo({"k", " ", "&"}, MaxCursor)}]

\* Login bodies put together from pieces (ParserInputs), and count bodies
\* over digits, signs, a letter and a newline (CountInputs).
PieceBodies(n) ==
    {Flatten(ps) : ps \in SeqsUpTo({LitAuth \o <<"a">>, LitAuth, <<"a">>, <<" ">>}, n)}
\* A body whose first Auth= has a blank after it and whose second has a token.
SecondAuthBody == LitAuth \o <<" ">> \o LitAuth \o <<"b">>
\* The body of a ClientLogin answer: SID and Auth lines.
ClientLoginBody == <<"S", "I", "D", "=", "x", "\n">> \o LitAuth \o <<"a", "b", "c", "\n">>

ParserInputs ==
    [urls |-> {<<Origin>>, << >>},
     logins |-> {TransportErr, Response(200, ClientLoginBody), Response(200, SecondAuthBody)}
                \cup {Response(200, b) : b \in PieceBodies(MaxPieces)},
     tokens |-> {Response(200, <<"a", "\n">>)},
     edits |-> {Response(200, <<"O", "K">>)},
     streams |-> {Response(200, JsonPage(<<"a">>, None))},
     counts |-> {Response(200, <<"7">>)},
     cursors |-> {None}]

CountInputs ==
    [urls |-> {<<Origin>>, << >>},
     logins |-> {TransportErr, Response(200, LitAuth \o <<"a">>)},
     tokens |-> {Response(200, <<"a", "\n">>)},
     edits |-> {Response(200, <<"O", "K">>)},
     streams |-> {Response(200, JsonPage(<<"a">>, None))},
     counts |-> Failures \cup {Response(200, <<"E", "R", "R", "O", "R">>)}
                \cup {Response(200, b) : b \in SeqsUpTo({"7", "0", "+", "-", "E", "\n"}, MaxCountBody + 1)},
     cursors |-> {None}]

\* Few answers, for callers that share the session.
TaskInputs ==
    [urls |-> {<<Origin>>, << >>},
     logins |-> {TransportErr, Response(200, LitAuth \o <<"a">>)},
     tokens |-> {TransportErr, Response(200, <<"a", "\n">>)},
     edits |-> {Response(200, <<"O", "K">>)},
     streams |-> {Response(200, JsonPage(<<"a">>, None))},
     counts |-> {Response(200, <<"7">>)},
     cursors |-> {None}]

\* ------------------------------------------------------------- state
VARIABLES
    phase,        \* "new": before try_new; "ready": the object exists; "failed": try_new returned Err
    raw_url,      \* the server URL text try_new was given
    username, password, server_url, authtoken, write_token, client,   \* lib.rs 17-25
    token_fetched, \* history: a token request made inside mark_item_read has been answered
    auth_issued,   \* history: the last value extracted from a ClientLogin response
    write_issued,  \* history: the last value obtained from the token endpoint
    lastCall,     \* the last call: its arguments, the state it started in, what it sent and returned
    borrow,       \* the caller that holds the session by &mut self, or 0
    task          \* per caller: where its call stands, the call, the endpoints it has asked

vars == <<phase, raw_url, username, password, server_url, authtoken, write_token,
          client, token_fetched, auth_issued, write_issued, lastCall, borrow, task>>
taskvars == <<borrow, task>>

Tasks == 1..NumTasks
Idle == [pc |-> "idle", op |-> "none", arg |-> << >>, pre_auth |-> None, sent |-> << >>]

\* The object as the operations take it (&mut self).
Self ==
    [username |-> username, password |-> password, server_url |-> server_url,
     authtoken |-> authtoken, write_token |-> write_token, client |-> client]

NoUrl == [origin |-> "", path |-> << >>, query |-> None]

Call(op_, arg_, out) ==
    [op |-> op_, arg |-> arg_,
     pre_auth |-> authtoken, pre_write |-> write_token, pre_client |-> client,
     pre_fetched |-> token_fetched,
     reqs |-> out.reqs, resps |-> out.resps, result |-> out.result]

Init ==
    /\ phase = "new"
    /\ raw_url = << >>
    /\ username = ""
    /\ password = ""
    /\ server_url = NoUrl
    /\ authtoken = None
    /\ write_token = None
    /\ client = None
    /\ token_fetched = FALSE
    /\ auth_issued = None
    /\ write_issued = None
    /\ lastCall = [op |-> "none", arg |-> << >>, pre_auth |-> None, pre_write |-> None,
                   pre_client |-> None, pre_fetched |-> FALSE,
                   reqs |-> << >>, resps |-> << >>, result |-> ResOk(<< >>)]
    /\ borrow = 0
    /\ task = [t \in Tasks |-> Idle]

\* The answers among a call's that carried a token: the login bodies the
\* regex matches, the bodies read from the token endpoint.
LoginIssues(out) ==
    {i \in 1..Len(out.reqs) :
        out.reqs[i].endpoint = "login" /\ out.resps[i].kind = "ok"
        /\ IsSome(captures(out.resps[i].body))}
TokenIssues(out) ==
    {i \in 1..Len(out.reqs) : out.reqs[i].endpoint = "token" /\ out.resps[i].kind = "ok"}
Last(S) == CHOOSE i \in S : \A j \in S : j <= i

\* The fields an operation leaves (it holds &mut self) and the record of the call.
Record(op_, arg_, out) ==
    /\ authtoken' = out.self.authtoken
    /\ write_token' = out.self.write_token
    /\ client' = out.self.client
    /\ server_url' = out.self.server_url
    /\ username' = out.self.username
    /\ password' = out.self.password
    /\ token_fetched' = (token_fetched \/ (op_ = "mark_item_read" /\ TokenIssues(out) # {}))
    /\ auth_issued' =
         IF LoginIssues(out) = {} THEN auth_issued
         ELSE captures(out.resps[Last(LoginIssues(out))].body)
    /\ write_issued' =
         IF TokenIssues(out) = {} THEN write_issued
         ELSE Some(strip_newline(out.resps[Last(TokenIssues(out))].body))
    /\ lastCall' = Call(op_, arg_, out)
    /\ UNCHANGED <<phase, raw_url>>

\* A call made and awaited to its end by the one owner of the session.
Commit(op_, arg_, out) == Record(op_, arg_, out) /\ UNCHANGED taskvars

\* The answers a call may meet, one per request it sends: the server side
\* answers no request that is never sent (NoResponse stands there).
Answers(login_, token_, own_) == [login |-> login_, token |-> token_, own |-> own_]
LoginAnswers(W) == IF needs_login(Self) THEN W.logins ELSE {NoResponse}
\* After the answer rl to the login, if any: the answers to what follows.
AfterLogin(rl, answers) ==
    IF ensure_login(Self, Answers(rl, NoResponse, NoResponse)).result.kind = "ok"
    THEN answers ELSE {NoResponse}
\* After the answers rl and rt: the answers to the edit-tag request.
AfterToken(rl, rt, answers) ==
    IF ensure_write_token(ensure_login(Self, Answers(rl, NoResponse, NoResponse)),
                          Answers(rl, rt, NoResponse)).result.kind = "ok"
    THEN answers ELSE {NoResponse}

\* ------------------------------------------------------------- actions
TryNew(W) ==
    /\ phase = "new"
    /\ \E u \in Usernames, p \in Passwords, url \in W.urls :
         \E r \in {try_new(u, p, url)} :
             /\ raw_url' = url
             /\ IF r.ok
                THEN /\ phase' = "ready"
                     /\ username' = r.value.username
                     /\ password' = r.value.password
                     /\ server_url' = r.value.server_url
                     /\ authtoken' = r.value.authtoken
                     /\ write_token' = r.value.write_token
                     /\ client' = r.value.client
                ELSE /\ phase' = "failed"
                     /\ UNCHANGED <<username, password, server_url, authtoken,
                                    write_token, client>>
             /\ UNCHANGED <<token_fetched, auth_issued, write_issued, lastCall>>
             /\ UNCHANGED taskvars

Login(W) ==
    /\ phase = "ready"
    /\ \E rl \in W.logins :
         Commit("login", << >>, login(Self, Answers(rl, NoResponse, NoResponse)))

GetWriteToken(W) ==
    /\ phase = "ready"
    /\ \E rl \in LoginAnswers(W) :
         \E rt \in AfterLogin(rl, W.tokens) :
            Commit("get_write_token", << >>,
                   get_write_token(Self, Answers(rl, rt, NoResponse)))

GetUnreadItems(W) ==
    /\ phase = "ready"
    /\ \E c \in W.cursors, rl \in LoginAnswers(W) :
         \E ro \in AfterLogin(rl, W.streams) :
            Commit("get_unread_items", c,
                   get_unread_items(Self, c, Answers(rl, NoResponse, ro)))

GetItem(W) ==
    /\ phase = "ready"
    /\ \E id \in ItemIds : Commit("get_item", id, get_item(Self, id))

MarkItemRead(W) ==
    /\ phase = "ready"
    /\ \E id \in ItemIds, rl \in LoginAnswers(W) :
         \E rt \in AfterLogin(rl, IF IsNone(write_token) THEN W.tokens ELSE {NoResponse}) :
            \E ro \in AfterToken(rl, rt, W.edits) :
               Commit("mark_item_read", id,
                      mark_item_read(Self, id, Answers(rl, rt, ro)))

UnreadCount(W) ==
    /\ phase = "ready"
    /\ \E rl \in LoginAnswers(W) :
         \E ro \in AfterLogin(rl, W.counts) :
            Commit("unread_count", << >>,
                   unread_count(Self, Answers(rl, NoResponse, ro)))

\* ------------------------------------------------------------- callers
\* Faulty variant of exclusive: a caller may enter while another holds the
\* session.
shared(t) == TRUE

\* Several callers share one session.  Each operation takes &mut self
\* (lib.rs 96, 140, 177, 253, 300): a call borrows the session from its
\* start to its return, its awaits included, and the borrow is exclusive.
exclusive(t) == borrow = 0

\* The endpoints of the requests in out.
endpoints(out) == [i \in 1..Len(out.reqs) |-> out.reqs[i].endpoint]

\* A caller enters an authenticated operation.
Begin(W) ==
    /\ phase = "ready"
    /\ \E t \in Tasks, o \in {"get_write_token", "get_unread_items", "mark_item_read",
                               "unread_count"} :
         /\ task[t].pc = "idle"
         /\ exclusive(t)
         /\ borrow' = t
         /\ \E a \in (CASE o = "get_unread_items" -> W.cursors
                         [] o = "mark_item_read" -> ItemIds
                         [] OTHER -> {<< >>}) :
              task' = [task EXCEPT ![t] = [pc |-> "login", op |-> o, arg |-> a,
                                           pre_auth |-> authtoken, sent |-> << >>]]
         /\ UNCHANGED <<phase, raw_url, username, password, server_url, authtoken,
                        write_token, client, token_fetched, auth_issued, write_issued,
                        lastCall>>

\* lib.rs 141-143, 181-183, 254-256, 301-303 with 97-116: a call that finds
\* no auth token makes the client if there is none, sends the login request
\* and waits for the answer; a call that finds one goes on.
Acquire ==
    \E t \in Tasks :
        /\ task[t].pc = "login"
        /\ IF needs_login(Self)
           THEN /\ client' = ensure_client(Self).client
                /\ task' = [task EXCEPT ![t].pc = "await_login", ![t].sent = @ \o <<"login">>]
           ELSE /\ task' = [task EXCEPT ![t].pc = "own"]
                /\ UNCHANGED client
        /\ UNCHANGED <<phase, raw_url, username, password, server_url, authtoken,
                       write_token, token_fetched, auth_issued, write_issued, lastCall,
                       borrow>>

\* lib.rs 117-136 and the ? of the caller: the answer to the login request.
Acquired(W) ==
    \E t \in Tasks :
        /\ task[t].pc = "await_login"
        /\ \E rl \in W.logins :
             \E out \in {[login(Self, Answers(rl, NoResponse, NoResponse))
                            EXCEPT !.result = with_context(@, "Failed to login")]} :
                 /\ Record("login", << >>, out)
                 /\ task' = [task EXCEPT ![t].pc = IF out.result.kind = "ok" THEN "own"
                                                    ELSE "return"]
        /\ UNCHANGED borrow

\* The operation of caller t past its login, on the answers rt and ro.
rest_of_call(c, rt, ro) ==
    CASE c.op = "get_write_token" -> get_write_token(Self, Answers(NoResponse, rt, NoResponse))
      [] c.op = "get_unread_items" -> get_unread_items(Self, c.arg, Answers(NoResponse, NoResponse, ro))
      [] c.op = "mark_item_read" -> mark_item_read(Self, c.arg, Answers(NoResponse, rt, ro))
      [] c.op = "unread_count" -> unread_count(Self, Answers(NoResponse, NoResponse, ro))

\* The rest of the call, awaited: the token request if one is due, and the
\* operation's own request.
Proceed(W) ==
    \E t \in Tasks :
        /\ task[t].pc = "own"
        /\ \E rt \in (IF task[t].op = "get_write_token"
                          \/ (task[t].op = "mark_item_read" /\ IsNone(write_token))
                       THEN W.tokens ELSE {NoResponse}) :
             \E ro \in (CASE task[t].op = "get_write_token" -> {NoResponse}
                           [] task[t].op = "get_unread_items" -> W.streams
                           [] task[t].op = "mark_item_read" -> AfterToken(NoResponse, rt, W.edits)
                           [] task[t].op = "unread_count" -> W.counts) :
                 \E out \in {rest_of_call(task[t], rt, ro)} :
                     /\ Record(task[t].op, task[t].arg, out)
                     /\ task' = [task EXCEPT ![t].pc = "return",
                                              ![t].sent = @ \o endpoints(out)]
        /\ UNCHANGED borrow

\* The call returns and gives the session back.
Return ==
    \E t \in Tasks :
        /\ task[t].pc = "return"
        /\ borrow' = 0
        /\ task' = [task EXCEPT ![t] = Idle]
        /\ UNCHANGED <<phase, raw_url, username, password, server_url, authtoken,
                       write_token, client, token_fetched, auth_issued, write_issued,
                       lastCall>>

NextOver(W) ==
    \/ TryNew(W)
    \/ Login(W)
    \/ GetWriteToken(W)
    \/ GetUnreadItems(W)
    \/ GetItem(W)
    \/ MarkItemRead(W)
    \/ UnreadCount(W)

Next == NextOver(ProtocolInputs)
NextBuild == NextOver(BuilderInputs)

\* The token protocol, over every answer of the server side.
Spec == Init /\ [][Next]_vars
\* The construction of requests, over every server URL and cursor.
SpecBuild == Init /\ [][NextBuild]_vars
\* The parsing of response bodies, over many bodies.
NextParse == NextOver(ParserInputs)
SpecParse == Init /\ [][NextParse]_vars
NextCount == NextOver(CountInputs)
SpecCount == Init /\ [][NextCount]_vars
\* Callers that share the session.
NextTasks ==
    \/ TryNew(TaskInputs)
    \/ Begin(TaskInputs)
    \/ Acquire
    \/ Acquired(TaskInputs)
    \/ Proceed(TaskInputs)
    \/ Return
SpecTasks == Init /\ [][NextTasks]_vars

\* ------------------------------------------------------------- properties
AuthenticatedOps == {"get_write_token", "get_unread_items", "mark_item_read", "unread_count"}

\* The places, in the last call's requests, of the requests to one endpoint.
Sent(e) == {i \in 1..Len(lastCall.reqs) : lastCall.reqs[i].endpoint = e}
\* The endpoints the last call asked, in order.
Endpoints == [i \in 1..Len(lastCall.reqs) |-> lastCall.reqs[i].endpoint]
IsPrefix(s, t) == Len(s) <= Len(t) /\ SubSeq(t, 1, Len(s)) = s
\* The Authorization header for token t.
GoogleLogin(t) == << <<"Authorization", <<"GoogleLogin auth=">> \o t>> >>

\* C1: an authenticated operation sends a login request exactly when no auth
\* token is cached as the call starts; then it sends one, before every other
\* request of the call.  mark_item_read on a fresh session asks login, token,
\* edit-tag in this order (as far as it gets), with no second login.
LazyLoginOnce ==
    lastCall.op \in AuthenticatedOps =>
        /\ Cardinality(Sent("login")) = (IF IsNone(lastCall.pre_auth) THEN 1 ELSE 0)
        /\ Sent("login") \subseteq {1}
        /\ (lastCall.op = "mark_item_read" /\ IsNone(lastCall.pre_auth)) =>
              /\ IsPrefix(Endpoints, <<"login", "token", "edit-tag">>)
              /\ lastCall.result.kind = "ok" => Endpoints = <<"login", "token", "edit-tag">>

\* A mark_item_read on a fresh session that went through all three requests.
LazyLoginOnceWitness ==
    /\ lastCall.op = "mark_item_read"
    /\ IsNone(lastCall.pre_auth)
    /\ lastCall.result.kind = "ok"
    /\ Endpoints = <<"login", "token", "edit-tag">>

\* C2: every request to an authenticated endpoint carries exactly the header
\* Authorization: GoogleLogin auth=<t>, t the cached auth token and not
\* empty; none is sent while no auth token is cached.
AuthorizationHeaderCarried ==
    \A i \in 1..Len(lastCall.reqs) :
        lastCall.reqs[i].endpoint # "login" =>
            /\ IsSome(authtoken)
            /\ Unwrap(authtoken) # << >>
            /\ lastCall.reqs[i].headers = GoogleLogin(Unwrap(authtoken))

\* An unread_count that had to log in and then sent its own request.
AuthorizationHeaderWitness ==
    /\ lastCall.op = "unread_count"
    /\ IsNone(lastCall.pre_auth)
    /\ Endpoints = <<"login", "unread-count">>

\* C3: a mark_item_read that starts with a write token cached asks the token
\* endpoint nothing and sends one edit-tag form: a = user/-/state/com.google/read,
\* T = the cached write token, i = the item id given.  Once a token request of
\* a mark_item_read has been answered, no later mark_item_read asks again.
WriteTokenReused ==
    lastCall.op = "mark_item_read" =>
        /\ (IsSome(lastCall.pre_write) \/ lastCall.pre_fetched) => Sent("token") = {}
        /\ IsSome(lastCall.pre_write) =>
              /\ Endpoints = <<"edit-tag">>
              /\ lastCall.reqs[1].form =
                    << <<"a", "user/-/state/com.google/read">>,
                       <<"T", Unwrap(lastCall.pre_write)>>,
                       <<"i", lastCall.arg>> >>

\* A second mark_item_read, after one that fetched the token.
WriteTokenReusedWitness ==
    /\ lastCall.op = "mark_item_read"
    /\ lastCall.pre_fetched
    /\ IsSome(lastCall.pre_write)
    /\ lastCall.result.kind = "ok"

\* C4: the value in the Authorization header is the one last extracted from a
\* ClientLogin response, and field T of edit-tag is the one last obtained from
\* the token endpoint.
TokenKindsKeptApart ==
    \A i \in 1..Len(lastCall.reqs) :
        /\ lastCall.reqs[i].endpoint # "login" =>
              /\ IsSome(auth_issued)
              /\ lastCall.reqs[i].headers = GoogleLogin(Unwrap(auth_issued))
        /\ lastCall.reqs[i].endpoint = "edit-tag" =>
              /\ IsSome(write_issued)
              /\ lastCall.reqs[i].form[2] = <<"T", Unwrap(write_issued)>>

\* An edit-tag request sent while the two tokens differ.
TokenKindsKeptApartWitness ==
    /\ Sent("edit-tag") # {}
    /\ IsSome(auth_issued) /\ IsSome(write_issued)
    /\ Unwrap(auth_issued) # Unwrap(write_issued)

\* The literal Auth= with a character that is no white space after it.
HasAuthToken(body) ==
    \E k \in 1..Len(body) :
        /\ k + 5 <= Len(body)
        /\ SubSeq(body, k, k + 4) = <<"A", "u", "t", "h", "=">>
        /\ body[k + 5] \notin {" ", "\n", "\t", "\r"}
\* The login request at i failed: in transport, in the body read, or by a
\* body with no token.
LoginFailedAt(i) ==
    /\ lastCall.reqs[i].endpoint = "login"
    /\ lastCall.resps[i].kind = "ok" => ~HasAuthToken(lastCall.resps[i].body)
\* The token request at i failed in transport or in the body read.
TokenFailedAt(i) ==
    /\ lastCall.reqs[i].endpoint = "token"
    /\ lastCall.resps[i].kind # "ok"

\* C5: a login that fails returns an error and leaves the cached auth token as
\* it was; a token request that fails returns an error and leaves the cached
\* write token as it was; a cached token changes only with an answer that was
\* read and parsed.
CachingOnlyAfterParse ==
    /\ \A i \in 1..Len(lastCall.reqs) :
          /\ LoginFailedAt(i) => lastCall.result.kind = "err" /\ authtoken = lastCall.pre_auth
          /\ TokenFailedAt(i) => lastCall.result.kind = "err" /\ write_token = lastCall.pre_write
    /\ authtoken # lastCall.pre_auth =>
          \E i \in Sent("login") :
              lastCall.resps[i].kind = "ok" /\ HasAuthToken(lastCall.resps[i].body)
    /\ write_token # lastCall.pre_write =>
          \E i \in Sent("token") : lastCall.resps[i].kind = "ok"

\* A login, with a token cached, whose answer carries no token.
CachingOnlyAfterParseWitness ==
    /\ lastCall.op = "login"
    /\ IsSome(lastCall.pre_auth)
    /\ lastCall.resps[1].kind = "ok"
    /\ lastCall.result.kind = "err"
    /\ authtoken = lastCall.pre_auth

\* C6: an authenticated operation whose cached auth token the server refuses
\* (status 401) returns an error and caches nothing from that answer.
StaleTokenSurfaces ==
    (/\ lastCall.op \in AuthenticatedOps
     /\ IsSome(lastCall.pre_auth)
     /\ \E i \in 1..Len(lastCall.resps) : lastCall.resps[i].status = 401) =>
        /\ lastCall.result.kind = "err"
        /\ write_token = lastCall.pre_write
        /\ authtoken = lastCall.pre_auth

\* A refused get_write_token that returned Ok and cached the refusal's body.
StaleTokenCachedWitness ==
    /\ lastCall.op = "get_write_token"
    /\ IsSome(lastCall.pre_auth)
    /\ lastCall.resps[1].status = 401
    /\ lastCall.result.kind = "ok"
    /\ write_token = Some(lastCall.resps[1].body)
    /\ write_token # lastCall.pre_write

\* No two "/" stand side by side in the text of a URL after its origin.
NoEmptySegment(u) == \A k \in 2..Len(u) : k < Len(u) => ~(u[k] = "/" /\ u[k + 1] = "/")

\* C7: the base URL stored by an accepted try_new does not end in "/", and no
\* request URL built from it has an empty path segment.
BaseUrlHasNoTrailingSlash ==
    phase = "ready" =>
        /\ ~ends_with(as_str(server_url), "/")
        /\ \A i \in 1..Len(lastCall.reqs) : NoEmptySegment(lastCall.reqs[i].url)

\* try_new accepted a text ending in "//", kept one "/", and a request went
\* to a URL with an empty segment.
DoubleSlashWitness ==
    /\ phase = "ready"
    /\ ends_with(raw_url, "/")
    /\ ends_with(as_str(server_url), "/")
    /\ \E i \in 1..Len(lastCall.reqs) : ~NoEmptySegment(lastCall.reqs[i].url)

\* The path segments each endpoint appends to the base URL.
SegmentsOf(e) ==
    CASE e = "login"        -> <<"accounts", "ClientLogin">>
      [] e = "token"        -> <<"reader", "api", "0", "token">>
      [] e = "stream"       -> <<"reader", "api", "0", "stream", "contents", "user", "-",
                                 "state", "com.google", "reading-list">>
      [] e = "edit-tag"     -> <<"reader", "api", "0", "edit-tag">>
      [] e = "unread-count" -> <<"reader", "api", "0", "unread-count">>
\* The URL of request rq when it is built on base URL base.
UrlOn(base, rq) == as_str([push_all(base, SegmentsOf(rq.endpoint)) EXCEPT !.query = rq.query])

\* C8: when try_new accepted a text u that does not end in "/", try_new of
\* u followed by "/" is accepted too and stores the same base URL, and every
\* request of the session goes to the URL it would go to from that other one.
TrailingSlashEquivalent ==
    (phase = "ready" /\ ~ends_with(raw_url, "/")) =>
        \E other \in {try_new(username, password, raw_url \o <<"/">>)} :
            /\ other.ok
            /\ other.value.server_url = server_url
            /\ \A i \in 1..Len(lastCall.reqs) :
                  lastCall.reqs[i].url = UrlOn(other.value.server_url, lastCall.reqs[i])

\* A session built from http://x/a that has sent a request.
TrailingSlashWitness ==
    /\ phase = "ready"
    /\ raw_url = <<Origin, "/", "a">>
    /\ try_new(username, password, raw_url \o <<"/">>).ok
    /\ Len(lastCall.reqs) > 0

\* C9: every get_unread_items call sends exactly one request to the stream
\* endpoint and returns one page.
OnePagePerCall ==
    lastCall.op = "get_unread_items" =>
        /\ Cardinality(Sent("stream")) = 1
        /\ lastCall.result.kind = "ok"

\* C9 (amended): a get_unread_items call sends at most one request to the
\* stream endpoint, and exactly one unless its lazy login fails; a successful
\* call returns the one page parsed from the answer to that request, with or
\* without a continuation in it.
OnePagePerCallAmended ==
    lastCall.op = "get_unread_items" =>
        /\ Cardinality(Sent("stream")) = (IF IsSome(authtoken) THEN 1 ELSE 0)
        /\ IsNone(authtoken) => lastCall.result.kind = "err" /\ IsNone(lastCall.pre_auth)
        /\ lastCall.result.kind = "ok" =>
              \E i \in Sent("stream") :
                  /\ i = Len(lastCall.reqs)
                  /\ lastCall.resps[i].kind = "ok"
                  /\ lastCall.resps[i].body.valid
                  /\ lastCall.resps[i].body.page = <<lastCall.result.value>>

\* A call that returned a page with a continuation in it, after one request.
OnePagePerCallWitness ==
    /\ lastCall.op = "get_unread_items"
    /\ lastCall.result.kind = "ok"
    /\ IsSome(lastCall.result.value.continuation)
    /\ Cardinality(Sent("stream")) = 1

FixedParameters == <<"r=n&xt=user/-/state/com.google/read">>

RECURSIVE Escaped(_)
Escaped(k) ==
    IF k = << >> THEN << >>
    ELSE (IF Head(k) = " " THEN <<"%", "2", "0">> ELSE <<Head(k)>>) \o Escaped(Tail(k))

RECURSIVE TakeVisible(_)
TakeVisible(s) ==
    IF s = << >> \/ Head(s) \in {" ", "\n", "\t", "\r"} THEN << >>
    ELSE <<Head(s)>> \o TakeVisible(Tail(s))
\* Auth= stands at k with a character that is no white space after it.
AuthTokenAt(body, k) ==
    /\ k + 5 <= Len(body)
    /\ SubSeq(body, k, k + 4) = <<"A", "u", "t", "h", "=">>
    /\ body[k + 5] \notin {" ", "\n", "\t", "\r"}
\* The run of characters after the first such Auth=.
RECURSIVE TokenFrom(_, _)
TokenFrom(body, k) ==
    IF AuthTokenAt(body, k) THEN TakeVisible(SubSeq(body, k + 5, Len(body)))
    ELSE TokenFrom(body, k + 1)

\* C11: a login whose response body was read succeeds exactly when the body
\* has Auth= followed by a character that is no white space; then the cached
\* auth token is the run of such characters after that Auth=, not empty,
\* without white space, whatever was cached before.
LoginParsesAuthLine ==
    \A i \in Sent("login") :
        lastCall.resps[i].kind = "ok" =>
            /\ lastCall.op = "login" =>
                  (lastCall.result.kind = "ok" <=> HasAuthToken(lastCall.resps[i].body))
            /\ ~HasAuthToken(lastCall.resps[i].body) =>
                  lastCall.result.kind = "err" /\ authtoken = lastCall.pre_auth
            /\ HasAuthToken(lastCall.resps[i].body) =>
                  /\ authtoken = Some(TokenFrom(lastCall.resps[i].body, 1))
                  /\ Unwrap(authtoken) # << >>
                  /\ \A j \in 1..Len(Unwrap(authtoken)) :
                        Unwrap(authtoken)[j] \notin {" ", "\n", "\t", "\r"}

\* A login that replaced a cached token by another one, read from a body
\* where a blank follows the token.
LoginParsesAuthLineWitness ==
    /\ lastCall.op = "login"
    /\ IsSome(lastCall.pre_auth)
    /\ lastCall.result.kind = "ok"
    /\ authtoken # lastCall.pre_auth
    /\ lastCall.resps[1].body = <<"A", "u", "t", "h", "=", "a", " ">>

\* The body without its last character when that is a newline.
WithoutOneNewline(b) ==
    IF Len(b) > 0 /\ b[Len(b)] = "\n" THEN [i \in 1..(Len(b) - 1) |-> b[i]] ELSE b

\* C12: when the body b of the token endpoint was read, get_write_token
\* returns and caches one and the same text: b without one trailing newline
\* when it ends in one, else b; an empty body gives an empty write token
\* and no error.
WriteTokenStripsOneNewline ==
    \A i \in Sent("token") :
        lastCall.resps[i].kind = "ok" =>
            /\ write_token = Some(WithoutOneNewline(lastCall.resps[i].body))
            /\ lastCall.op = "get_write_token" =>
                  /\ lastCall.result.kind = "ok"
                  /\ lastCall.result.value = WithoutOneNewline(lastCall.resps[i].body)

\* A body of two newlines: one is taken off, one is kept.
WriteTokenStripsOneNewlineWitness ==
    /\ lastCall.op = "get_write_token"
    /\ lastCall.result.kind = "ok"
    /\ lastCall.resps[Len(lastCall.resps)].body = <<"\n", "\n">>
    /\ write_token = Some(<<"\n">>)
    /\ lastCall.result.value = <<"\n">>

Digits == <<"0", "1", "2", "3", "4", "5", "6", "7", "8", "9">>
\* The text of an unsigned integer as str::parse::<usize> reads it: decimal
\* digits, at least one, which a single '+' may precede; nothing else.
DigitsOf(b) == IF Len(b) > 0 /\ b[1] = "+" THEN SubSeq(b, 2, Len(b)) ELSE b
IsUnsignedText(b) ==
    /\ Len(DigitsOf(b)) > 0
    /\ \A i \in 1..Len(DigitsOf(b)) : \E d \in 1..10 : Digits[d] = DigitsOf(b)[i]
RECURSIVE DecimalOf(_)
DecimalOf(ds) ==
    IF ds = << >> THEN 0
    ELSE 10 * DecimalOf(SubSeq(ds, 1, Len(ds) - 1))
         + (CHOOSE d \in 0..9 : Digits[d + 1] = ds[Len(ds)])

\* C13: unread_count returns a number only when the body read is the text of
\* one unsigned integer, and then that number; for every other body (empty,
\* letters, a minus sign, a newline after the digits) it returns an error,
\* not a number and not a panic.
UnreadCountParsesOrFails ==
    lastCall.op = "unread_count" =>
        /\ lastCall.result.kind # "panic"
        /\ lastCall.result.kind = "ok" =>
              \E i \in Sent("unread-count") :
                  /\ lastCall.resps[i].kind = "ok"
                  /\ IsUnsignedText(lastCall.resps[i].body)
                  /\ lastCall.result.value = DecimalOf(DigitsOf(lastCall.resps[i].body))
        /\ \A i \in Sent("unread-count") :
              (lastCall.resps[i].kind = "ok" /\ ~IsUnsignedText(lastCall.resps[i].body))
                  => lastCall.result.kind = "err"

\* The body ERROR gave an error.
UnreadCountParsesOrFailsWitness ==
    /\ lastCall.op = "unread_count"
    /\ Sent("unread-count") # {}
    /\ lastCall.resps[Len(lastCall.resps)].kind = "ok"
    /\ lastCall.resps[Len(lastCall.resps)].body = <<"E", "R", "R", "O", "R">>
    /\ lastCall.result.kind = "err"

AllEndpoints == {"login", "token", "stream", "edit-tag", "unread-count"}
\* The step that sent request i failed: no answer, no body, or (login) a body
\* without a token.
StepFailedAt(i) ==
    \/ lastCall.resps[i].kind # "ok"
    \/ lastCall.reqs[i].endpoint = "login" /\ ~HasAuthToken(lastCall.resps[i].body)

\* C14: within one call no endpoint is asked twice; the request of a step
\* that fails is the last one of the call and the call returns an error;
\* mark_item_read sends no edit-tag request when the login or the token
\* request failed.
NoRetry ==
    /\ \A e \in AllEndpoints : Cardinality(Sent(e)) <= 1
    /\ \A i \in 1..Len(lastCall.reqs) :
          StepFailedAt(i) => i = Len(lastCall.reqs) /\ lastCall.result.kind = "err"
    /\ (\E i \in Sent("login") \cup Sent("token") : StepFailedAt(i)) => Sent("edit-tag") = {}

\* A mark_item_read on a fresh session that stopped at the token request.
NoRetryWitness ==
    /\ lastCall.op = "mark_item_read"
    /\ Endpoints = <<"login", "token">>
    /\ StepFailedAt(2)
    /\ lastCall.result.kind = "err"

ProtocolOps == {"login", "get_write_token", "get_unread_items", "mark_item_read", "unread_count"}
\* The requests a call that succeeds has to send, from the tokens cached as
\* it starts.
RequestsNeeded ==
    1 + (IF lastCall.op # "login" /\ IsNone(lastCall.pre_auth) THEN 1 ELSE 0)
      + (IF lastCall.op = "mark_item_read" /\ IsNone(lastCall.pre_write) THEN 1 ELSE 0)

\* C15: every call of a protocol operation sends exactly one HTTP request.
SingleRoundTrip == lastCall.op \in ProtocolOps => Len(lastCall.reqs) = 1

\* C15 (amended): a call of login sends exactly one request.  A call of
\* another protocol operation sends its own request once, after a login
\* request when no auth token is cached and (mark_item_read) after a token
\* request when no write token is cached: one to three requests, exactly one
\* when the tokens it needs are cached, fewer than needed only when a step
\* fails.
RoundTripsPerCall ==
    lastCall.op \in ProtocolOps =>
        /\ Len(lastCall.reqs) >= 1
        /\ Len(lastCall.reqs) <= RequestsNeeded
        /\ lastCall.result.kind = "ok" => Len(lastCall.reqs) = RequestsNeeded
        /\ lastCall.op = "login" => Len(lastCall.reqs) = 1
        /\ Len(lastCall.reqs) < RequestsNeeded =>
              /\ lastCall.result.kind = "err"
              /\ StepFailedAt(Len(lastCall.reqs))

\* A get_write_token on a fresh session: two requests.
RoundTripsPerCallWitness ==
    /\ lastCall.op = "get_write_token"
    /\ IsNone(lastCall.pre_auth)
    /\ lastCall.result.kind = "ok"
    /\ Endpoints = <<"login", "token">>

InProgress(t) == task[t].pc # "idle"

WriteTokenImpliesAuthToken == IsSome(write_token) => IsSome(authtoken)

\* Both tokens are cached and the last call failed.
WriteTokenImpliesAuthTokenWitness ==
    /\ IsSome(write_token)
    /\ IsSome(authtoken)
    /\ lastCall.result.kind = "err"
    /\ lastCall.op \in {"login", "get_write_token"}

\* C18: no step unsets a cached auth token or a cached write token; a cached
\* auth token changes only in a login that succeeds, a cached write token only
\* in a get_write_token that succeeds.
TokensNeverInvalidated ==
    [][/\ IsSome(authtoken) => IsSome(authtoken')
       /\ IsSome(write_token) => IsSome(write_token')
       /\ (IsSome(authtoken) /\ authtoken' # authtoken) =>
             lastCall'.op = "login" /\ lastCall'.result.kind = "ok"
       /\ (IsSome(write_token) /\ write_token' # write_token) =>
             lastCall'.op = "get_write_token" /\ lastCall'.result.kind = "ok"]_vars

\* A get_write_token that overwrote the cached write token, and a cached auth
\* token that outlived it.
TokensNeverInvalidatedWitness ==
    /\ lastCall.op = "get_write_token"
    /\ IsSome(lastCall.pre_write)
    /\ IsSome(write_token)
    /\ write_token # lastCall.pre_write
    /\ authtoken = lastCall.pre_auth

\* C19: get_unread_items, unread_count and login leave the cached write token
\* as it was; get_unread_items and unread_count called with an auth token
\* cached leave both tokens as they were, whether they succeed or fail.
ReadsKeepTokens ==
    /\ lastCall.op \in {"get_unread_items", "unread_count", "login"} =>
          write_token = lastCall.pre_write
    /\ (lastCall.op \in {"get_unread_items", "unread_count"} /\ IsSome(lastCall.pre_auth)) =>
          authtoken = lastCall.pre_auth /\ write_token = lastCall.pre_write

\* A get_unread_items that failed with both tokens cached.
ReadsKeepTokensWitness ==
    /\ lastCall.op = "get_unread_items"
    /\ IsSome(lastCall.pre_auth)
    /\ IsSome(lastCall.pre_write)
    /\ lastCall.result.kind = "err"
    /\ Sent("stream") # {}

\* C20: an auth token is cached only when the client exists; no call ends in
\* the panic of an unwrap, and every authenticated request was built with the
\* client and the auth token present.
ClientAndTokenPresent ==
    /\ IsSome(authtoken) => IsSome(client)
    /\ lastCall.result.kind # "panic"
    /\ (\E i \in 1..Len(lastCall.reqs) : lastCall.reqs[i].endpoint # "login") =>
          IsSome(client) /\ IsSome(authtoken)
    /\ Len(lastCall.reqs) > 0 => IsSome(client)

\* A call that found the client of a failed login and no token, logged in
\* and sent its request.
ClientAndTokenPresentWitness ==
    /\ lastCall.op \in AuthenticatedOps
    /\ IsSome(lastCall.pre_client)
    /\ IsNone(lastCall.pre_auth)
    /\ lastCall.result.kind = "ok"
    /\ Len(lastCall.reqs) >= 2
====
